---- MODULE Spec2Model ----
(***************************************************************************)
(* Model of the SDEverse authentication controller                         *)
(* (server/controllers/auth.controller.js): registration, login, Google    *)
(* sign-in, current-user retrieval and the forgot-password / OTP /         *)
(* reset-password flow, over a Credential Store (users) and an OTP Store   *)
(* (otps).                                                                 *)
(*                                                                         *)
(* JavaScript strings are sequences of one-character strings, so that      *)
(* trim, toLowerCase, the regular expressions and Number() are computed    *)
(* character by character.  A missing request field is the empty string:   *)
(* both are falsy in the handlers' presence checks.                        *)
(***************************************************************************)
EXTENDS Integers, Sequences, FiniteSets, TLC

VARIABLES
  users,      \* Credential Store: the User collection, in insertion order
  otps,       \* OTP Store: the OTP collection, in insertion order
  now,        \* Date.now(), in milliseconds
  ticks,      \* number of clock advances so far (bounds the clock)
  resp,       \* the outcome of the last handler that completed
  reg,        \* in-flight registerUser calls (position and awaited results)
  lastReset,  \* history: the last successful resetPassword (email, old, new)
  client      \* Client State Mirror: slice state, localStorage, call in flight

vars == <<users, otps, now, ticks, resp, reg, lastReset, client>>

-----------------------------------------------------------------------------
(* Characters and string primitives                                        *)

Upper ==
  <<"A","B","C","D","E","F","G","H","I","J","K","L","M",
    "N","O","P","Q","R","S","T","U","V","W","X","Y","Z">>

Lower ==
  <<"a","b","c","d","e","f","g","h","i","j","k","l","m",
    "n","o","p","q","r","s","t","u","v","w","x","y","z">>

DigitChars == <<"0","1","2","3","4","5","6","7","8","9">>

Range(s) == { s[i] : i \in 1..Len(s) }

Letters == Range(Upper) \cup Range(Lower)

Digits == Range(DigitChars)

\* \s of the regular expressions, and the characters String.prototype.trim removes
Whitespace == {" ", "\t", "\n"}

LowerChar(c) ==
  IF c \in Range(Upper)
    THEN Lower[CHOOSE i \in 1..Len(Upper) : Upper[i] = c]
    ELSE c

\* String.prototype.toLowerCase
ToLowerCase(s) == [i \in 1..Len(s) |-> LowerChar(s[i])]

RECURSIVE TrimLeft(_)
TrimLeft(s) ==
  IF Len(s) > 0 /\ s[1] \in Whitespace THEN TrimLeft(Tail(s)) ELSE s

RECURSIVE TrimRight(_)
TrimRight(s) ==
  IF Len(s) > 0 /\ s[Len(s)] \in Whitespace
    THEN TrimRight(SubSeq(s, 1, Len(s) - 1))
    ELSE s

\* String.prototype.trim
Trim(s) == TrimRight(TrimLeft(s))

DigitValue(c) == (CHOOSE i \in 1..Len(DigitChars) : DigitChars[i] = c) - 1

RECURSIVE DecimalValue(_)
DecimalValue(s) ==
  IF Len(s) = 0 THEN 0
  ELSE 10 * DecimalValue(SubSeq(s, 1, Len(s) - 1)) + DigitValue(s[Len(s)])

\* Number(NaN) compares unequal to every stored code; stored codes are positive
NaN == -1

\* Number(code) for a string: surrounding whitespace is ignored, the empty
\* string is 0, a string of decimal digits is its value, anything else NaN
NumberOf(s) ==
  LET t == Trim(s) IN
    IF Len(t) = 0 THEN 0
    ELSE IF Range(t) \subseteq Digits THEN DecimalValue(t)
    ELSE NaN

-----------------------------------------------------------------------------
(* Validation helpers                                                      *)

MaxEmailLen == 100
MinUsernameLen == 3
MaxUsernameLen == 20
MinPasswordLen == 6
MaxPasswordLen == 128

\* /^[^\s@]+@[^\s@]+\.[^\s@]+$/ : exactly one "@", no whitespace, a non-empty
\* local part, and a "." in the domain with a character on each side of it
EmailRegexTest(s) ==
  \E i \in 1..Len(s) :
    /\ s[i] = "@"
    /\ \A k \in 1..Len(s) : k # i => s[k] \notin (Whitespace \cup {"@"})
    /\ i > 1
    /\ \E j \in (i + 2)..(Len(s) - 1) : s[j] = "."

validateEmail(email) ==
  EmailRegexTest(Trim(email)) /\ Len(email) <= MaxEmailLen

\* /^[a-zA-Z0-9_]{3,20}$/
validateUsername(username) ==
  LET t == Trim(username) IN
    /\ Len(t) >= MinUsernameLen
    /\ Len(t) <= MaxUsernameLen
    /\ Range(t) \subseteq (Letters \cup Digits \cup {"_"})

validatePassword(password) ==
  /\ Len(password) >= MinPasswordLen
  /\ Len(password) <= MaxPasswordLen
  /\ Range(password) \cap Letters # {}
  /\ Range(password) \cap Digits # {}

\* input.trim().replace(/^\$/, "")
sanitizeInput(input) ==
  LET t == Trim(input) IN
    IF Len(t) > 0 /\ t[1] = "$" THEN Tail(t) ELSE t

-----------------------------------------------------------------------------
(* Credential Store and OTP Store (models/user.model, models/otp.model)    *)

\* the password hashing capability: a one-way image, never the plain text;
\* an empty password is stored as the empty hash
Hash(p) == IF Len(p) = 0 THEN <<>> ELSE <<"#">> \o p

\* user.matchPassword(entered)
matchPassword(user, entered) ==
  Len(user.password) > 0 /\ user.password = Hash(entered)

\* User.findOne({ email }): the first record, in insertion order, whose email
\* is exactly the given string; 0 when there is none
UserFindByEmail(U, email) ==
  IF \E i \in 1..Len(U) : U[i].email = email
    THEN CHOOSE i \in 1..Len(U) :
           U[i].email = email /\ \A k \in 1..(i - 1) : U[k].email # email
    ELSE 0

\* User.findOne({ username })
UserFindByUsername(U, username) ==
  IF \E i \in 1..Len(U) : U[i].username = username
    THEN CHOOSE i \in 1..Len(U) :
           U[i].username = username
           /\ \A k \in 1..(i - 1) : U[k].username # username
    ELSE 0

\* the store's unique indexes on username and on email reject the write
UniqueViolation(U, doc) ==
  \E i \in 1..Len(U) : U[i].username = doc.username \/ U[i].email = doc.email

\* User.create(doc): a new record with a fresh id and the password hashed
UserCreate(U, doc) ==
  Append(U, [id         |-> Len(U) + 1,
             username   |-> doc.username,
             email      |-> doc.email,
             password   |-> Hash(doc.password),
             profilePic |-> doc.profilePic])

\* user.password = newPassword; user.save()
UserSavePassword(U, i, newPassword) ==
  [U EXCEPT ![i].password = Hash(newPassword)]

\* OTP.create({ email, code }): createdAt is the time of creation
OTPCreate(O, email, code, t) ==
  Append(O, [email |-> email, code |-> code, createdAt |-> t])

\* OTP.findOne({ email, code }): the first matching record in insertion order
OTPFindOne(O, email, code) ==
  IF \E j \in 1..Len(O) : O[j].email = email /\ O[j].code = code
    THEN CHOOSE j \in 1..Len(O) :
           /\ O[j].email = email /\ O[j].code = code
           /\ \A k \in 1..(j - 1) : ~(O[k].email = email /\ O[k].code = code)
    ELSE 0

\* the session token: signed, bound to the user id, expiring after 7 days
generateToken(id) == [id |-> id, expiresIn |-> "7d"]

-----------------------------------------------------------------------------
(* Handler outcomes                                                        *)

\* res.statusCode before any res.status(...) call
StatusUnset == 200

\* res.status(status).json(body)
Json(status, body) == [kind |-> "json", status |-> status, body |-> body]

\* throw new Error(message), with res.statusCode as the handler left it
Throw(status, message) ==
  [kind |-> "throw", status |-> status, body |-> [message |-> message]]

Pass == [kind |-> "pass", status |-> StatusUnset, body |-> [message |-> ""]]

\* what a handler leaves behind: the two stores and the response
Result(U, O, r) == [users |-> U, otps |-> O, resp |-> r]

\* user.toObject(); delete userObj.password
StripPassword(u) == [f \in (DOMAIN u) \ {"password"} |-> u[f]]

NoPic == <<>>

-----------------------------------------------------------------------------
(* registerUser                                                            *)

\* the presence and format checks, in the handler's order
RegisterValidation(username, email, password) ==
  IF Len(username) = 0 \/ Len(email) = 0 \/ Len(password) = 0
    THEN Throw(400, "Please provide all required fields")
  ELSE IF ~validateUsername(sanitizeInput(username))
    THEN Throw(StatusUnset, "Invalid username format")
  ELSE IF ~validateEmail(sanitizeInput(email))
    THEN Throw(StatusUnset, "Invalid email address")
  ELSE IF ~validatePassword(password)
    THEN Throw(StatusUnset, "Weak password")
  ELSE Pass

\* User.findOne({ email: sanitizedEmail.toLowerCase() })
RegisterLookupEmail(U, email) ==
  UserFindByEmail(U, ToLowerCase(sanitizeInput(email))) # 0

\* User.findOne({ username: sanitizedUsername })
RegisterLookupUsername(U, username) ==
  UserFindByUsername(U, sanitizeInput(username)) # 0

\* a document whose email keeps the letter case of the request
RegisterDocRawEmail(username, email, password) ==
  [username   |-> sanitizeInput(username),
   email      |-> sanitizeInput(email),
   password   |-> password,
   profilePic |-> NoPic]

\* the document registerUser hands to User.create
RegisterDoc(username, email, password) ==
  [username   |-> sanitizeInput(username),
   email      |-> ToLowerCase(sanitizeInput(email)),
   password   |-> password,
   profilePic |-> NoPic]

\* from the join of the two lookups to the response: the duplicate checks,
\* User.create (which the store's unique indexes may reject) and the 201
RegisterFinish(U, O, username, email, password, emailExists, usernameExists) ==
  IF emailExists
    THEN Result(U, O, Throw(StatusUnset, "Email already registered"))
  ELSE IF usernameExists
    THEN Result(U, O, Throw(StatusUnset, "Username already taken"))
  ELSE LET doc == RegisterDoc(username, email, password) IN
    IF UniqueViolation(U, doc)
      THEN Result(U, O, Throw(StatusUnset, "E11000 duplicate key error"))
      ELSE LET U2   == UserCreate(U, doc)
               user == U2[Len(U2)]
           IN  Result(U2, O,
                 Json(201, StripPassword(user)
                             @@ [token |-> generateToken(user.id)]))

\* the whole handler, run without another request in between
registerUser(U, O, username, email, password) ==
  LET v == RegisterValidation(username, email, password) IN
    IF v.kind = "throw"
      THEN Result(U, O, v)
      ELSE RegisterFinish(U, O, username, email, password,
                          RegisterLookupEmail(U, email),
                          RegisterLookupUsername(U, username))

-----------------------------------------------------------------------------
(* loginUser, getMe, googleAuth                                            *)

\* a loginUser that tells an unknown email from a wrong password
loginUserEnumerating(U, O, email, password) ==
  IF Len(email) = 0 \/ Len(password) = 0
    THEN Result(U, O, Throw(StatusUnset, "Please provide email and password"))
  ELSE IF ~validateEmail(sanitizeInput(email))
    THEN Result(U, O, Throw(StatusUnset, "Invalid email address"))
  ELSE LET i == UserFindByEmail(U, ToLowerCase(sanitizeInput(email))) IN
    IF i = 0
      THEN Result(U, O, Throw(404, "User not found"))
    ELSE IF matchPassword(U[i], password)
      THEN Result(U, O,
             Json(StatusUnset,
                  StripPassword(U[i]) @@ [token |-> generateToken(U[i].id)]))
      ELSE Result(U, O, Throw(401, "Invalid email or password"))

\* a loginUser that looks the account up by the email as it was typed
loginUserRawEmail(U, O, email, password) ==
  IF Len(email) = 0 \/ Len(password) = 0
    THEN Result(U, O, Throw(StatusUnset, "Please provide email and password"))
  ELSE IF ~validateEmail(sanitizeInput(email))
    THEN Result(U, O, Throw(StatusUnset, "Invalid email address"))
  ELSE LET i == UserFindByEmail(U, sanitizeInput(email)) IN
    IF i # 0 /\ matchPassword(U[i], password)
      THEN Result(U, O,
             Json(StatusUnset,
                  StripPassword(U[i]) @@ [token |-> generateToken(U[i].id)]))
      ELSE Result(U, O, Throw(401, "Invalid email or password"))

loginUser(U, O, email, password) ==
  IF Len(email) = 0 \/ Len(password) = 0
    THEN Result(U, O, Throw(StatusUnset, "Please provide email and password"))
  ELSE IF ~validateEmail(sanitizeInput(email))
    THEN Result(U, O, Throw(StatusUnset, "Invalid email address"))
  ELSE LET i == UserFindByEmail(U, ToLowerCase(sanitizeInput(email))) IN
    IF i # 0 /\ matchPassword(U[i], password)
      THEN Result(U, O,
             Json(StatusUnset,
                  StripPassword(U[i]) @@ [token |-> generateToken(U[i].id)]))
      ELSE Result(U, O, Throw(401, "Invalid email or password"))

\* reqUser is the index of the record the protect middleware attached to the
\* request, 0 when it attached none
getMe(U, O, reqUser) ==
  IF reqUser = 0
    THEN Result(U, O, Throw(401, "Not authorized"))
    ELSE Result(U, O, Json(200, StripPassword(U[reqUser])))

GoogleFailed == Json(400, [success |-> FALSE, message |-> "Google login failed"])

\* idToken: [valid, email, name, picture]; verifyIdToken throws on an invalid
\* token, and every throw inside the try block ends in the 400 response
googleAuth(U, O, idToken) ==
  IF ~idToken.valid
    THEN Result(U, O, GoogleFailed)
  ELSE LET i   == UserFindByEmail(U, idToken.email)
           doc == [username   |-> idToken.name,
                   email      |-> idToken.email,
                   password   |-> <<>>,
                   profilePic |-> idToken.picture]
       IN
    IF i = 0 /\ UniqueViolation(U, doc)
      THEN Result(U, O, GoogleFailed)
      ELSE LET U2   == IF i = 0 THEN UserCreate(U, doc) ELSE U
               user == IF i = 0 THEN U2[Len(U2)] ELSE U[i]
           IN  Result(U2, O,
                 Json(StatusUnset,
                      [success |-> TRUE,
                       token   |-> generateToken(user.id),
                       user    |-> user]))

-----------------------------------------------------------------------------
(* forgotPassword, validateOTP, resetPassword                              *)

\* 5 * 60 * 1000 milliseconds
OtpWindowMs == 5 * 60 * 1000

\* the least value of Math.floor(100000 + Math.random() * 999999)
MinOtpCode == 100000

\* otpCode is the generated code, delivered whether sendEmail resolves
\* a forgotPassword that issues the code without the user lookup
forgotPasswordNoGate(U, O, t, email, otpCode, delivered) ==
  IF Len(email) = 0
    THEN Result(U, O, Throw(StatusUnset, "Please provide an email"))
  ELSE IF ~validateEmail(sanitizeInput(email))
    THEN Result(U, O, Throw(StatusUnset, "Invalid email address"))
  ELSE LET O2 == OTPCreate(O, ToLowerCase(sanitizeInput(email)), otpCode, t) IN
    IF ~delivered
      THEN Result(U, O2, Throw(StatusUnset, "sendEmail failed"))
      ELSE Result(U, O2, Json(200, [message |-> "OTP sent", success |-> TRUE]))

\* a forgotPassword that sends the mail before it persists the record
forgotPasswordSendFirst(U, O, t, email, otpCode, delivered) ==
  IF Len(email) = 0
    THEN Result(U, O, Throw(StatusUnset, "Please provide an email"))
  ELSE IF ~validateEmail(sanitizeInput(email))
    THEN Result(U, O, Throw(StatusUnset, "Invalid email address"))
  ELSE IF UserFindByEmail(U, ToLowerCase(sanitizeInput(email))) = 0
    THEN Result(U, O,
           Json(200, [message |-> "If account exists, OTP sent",
                      success |-> TRUE]))
  ELSE IF ~delivered
    THEN Result(U, O, Throw(StatusUnset, "sendEmail failed"))
    ELSE Result(U, OTPCreate(O, ToLowerCase(sanitizeInput(email)), otpCode, t),
                Json(200, [message |-> "OTP sent", success |-> TRUE]))

forgotPassword(U, O, t, email, otpCode, delivered) ==
  IF Len(email) = 0
    THEN Result(U, O, Throw(StatusUnset, "Please provide an email"))
  ELSE IF ~validateEmail(sanitizeInput(email))
    THEN Result(U, O, Throw(StatusUnset, "Invalid email address"))
  ELSE IF UserFindByEmail(U, ToLowerCase(sanitizeInput(email))) = 0
    THEN Result(U, O,
           Json(200, [message |-> "If account exists, OTP sent",
                      success |-> TRUE]))
  ELSE LET O2 == OTPCreate(O, ToLowerCase(sanitizeInput(email)), otpCode, t) IN
    IF ~delivered
      THEN Result(U, O2, Throw(StatusUnset, "sendEmail failed"))
      ELSE Result(U, O2, Json(200, [message |-> "OTP sent", success |-> TRUE]))

\* !otpRecord || Date.now() > otpRecord.createdAt.getTime() + 5 * 60 * 1000
OtpInvalidOrExpired(O, t, email, code) ==
  LET j == OTPFindOne(O, sanitizeInput(email), NumberOf(code)) IN
    j = 0 \/ t > O[j].createdAt + OtpWindowMs

\* a validateOTP that consumes the record it validated
validateOTPConsuming(U, O, t, email, code) ==
  LET j == OTPFindOne(O, sanitizeInput(email), NumberOf(code)) IN
    IF OtpInvalidOrExpired(O, t, email, code)
      THEN Result(U, O, Throw(StatusUnset, "Invalid or expired OTP"))
      ELSE Result(U, SubSeq(O, 1, j - 1) \o SubSeq(O, j + 1, Len(O)),
             Json(200, [message |-> "OTP validated", success |-> TRUE]))

validateOTP(U, O, t, email, code) ==
  IF OtpInvalidOrExpired(O, t, email, code)
    THEN Result(U, O, Throw(StatusUnset, "Invalid or expired OTP"))
    ELSE Result(U, O,
           Json(200, [message |-> "OTP validated", success |-> TRUE]))

\* a resetPassword that answers success without saving the new password
resetPasswordNoSave(U, O, t, email, code, newPassword, confirmPassword) ==
  IF Len(newPassword) = 0 \/ Len(confirmPassword) = 0
    THEN Result(U, O, Throw(StatusUnset, "Provide both passwords"))
  ELSE IF OtpInvalidOrExpired(O, t, email, code)
    THEN Result(U, O, Throw(StatusUnset, "Invalid or expired OTP"))
  ELSE IF newPassword # confirmPassword
    THEN Result(U, O, Throw(StatusUnset, "Passwords do not match"))
  ELSE IF ~validatePassword(newPassword)
    THEN Result(U, O, Throw(StatusUnset, "Weak password"))
  ELSE IF UserFindByEmail(U, ToLowerCase(sanitizeInput(email))) = 0
    THEN Result(U, O, Throw(StatusUnset, "User not found"))
  ELSE Result(U, O,
         Json(200, [message |-> "Password reset successfully",
                    success |-> TRUE]))

\* a resetPassword that compares the two passwords before it checks the OTP
resetPasswordMismatchFirst(U, O, t, email, code, newPassword, confirmPassword) ==
  IF Len(newPassword) = 0 \/ Len(confirmPassword) = 0
    THEN Result(U, O, Throw(StatusUnset, "Provide both passwords"))
  ELSE IF newPassword # confirmPassword
    THEN Result(U, O, Throw(StatusUnset, "Passwords do not match"))
  ELSE IF OtpInvalidOrExpired(O, t, email, code)
    THEN Result(U, O, Throw(StatusUnset, "Invalid or expired OTP"))
  ELSE IF ~validatePassword(newPassword)
    THEN Result(U, O, Throw(StatusUnset, "Weak password"))
  ELSE LET i == UserFindByEmail(U, ToLowerCase(sanitizeInput(email))) IN
    IF i = 0
      THEN Result(U, O, Throw(StatusUnset, "User not found"))
      ELSE Result(UserSavePassword(U, i, newPassword), O,
             Json(200, [message |-> "Password reset successfully",
                        success |-> TRUE]))

\* a resetPassword that saves the new password as soon as the OTP is accepted,
\* before it compares and validates the two passwords
resetPasswordSaveFirst(U, O, t, email, code, newPassword, confirmPassword) ==
  IF Len(newPassword) = 0 \/ Len(confirmPassword) = 0
    THEN Result(U, O, Throw(StatusUnset, "Provide both passwords"))
  ELSE IF OtpInvalidOrExpired(O, t, email, code)
    THEN Result(U, O, Throw(StatusUnset, "Invalid or expired OTP"))
  ELSE LET i  == UserFindByEmail(U, ToLowerCase(sanitizeInput(email)))
           U2 == IF i = 0 THEN U ELSE UserSavePassword(U, i, newPassword)
       IN
    IF newPassword # confirmPassword
      THEN Result(U2, O, Throw(StatusUnset, "Passwords do not match"))
    ELSE IF ~validatePassword(newPassword)
      THEN Result(U2, O, Throw(StatusUnset, "Weak password"))
    ELSE IF i = 0
      THEN Result(U2, O, Throw(StatusUnset, "User not found"))
      ELSE Result(U2, O,
             Json(200, [message |-> "Password reset successfully",
                        success |-> TRUE]))

\* a resetPassword that deletes the OTP record it accepted
resetPasswordConsuming(U, O, t, email, code, newPassword, confirmPassword) ==
  IF Len(newPassword) = 0 \/ Len(confirmPassword) = 0
    THEN Result(U, O, Throw(StatusUnset, "Provide both passwords"))
  ELSE IF OtpInvalidOrExpired(O, t, email, code)
    THEN Result(U, O, Throw(StatusUnset, "Invalid or expired OTP"))
  ELSE IF newPassword # confirmPassword
    THEN Result(U, O, Throw(StatusUnset, "Passwords do not match"))
  ELSE IF ~validatePassword(newPassword)
    THEN Result(U, O, Throw(StatusUnset, "Weak password"))
  ELSE LET i == UserFindByEmail(U, ToLowerCase(sanitizeInput(email)))
           j == OTPFindOne(O, sanitizeInput(email), NumberOf(code))
       IN
    IF i = 0
      THEN Result(U, O, Throw(StatusUnset, "User not found"))
      ELSE Result(UserSavePassword(U, i, newPassword),
                  SubSeq(O, 1, j - 1) \o SubSeq(O, j + 1, Len(O)),
             Json(200, [message |-> "Password reset successfully",
                        success |-> TRUE]))

\* a resetPassword that looks the OTP record up by the code alone
resetPasswordCodeOnly(U, O, t, email, code, newPassword, confirmPassword) ==
  LET js == {j \in 1..Len(O) : O[j].code = NumberOf(code)}
      j  == IF js = {} THEN 0 ELSE CHOOSE k \in js : \A l \in js : k <= l
  IN
  IF Len(newPassword) = 0 \/ Len(confirmPassword) = 0
    THEN Result(U, O, Throw(StatusUnset, "Provide both passwords"))
  ELSE IF j = 0 \/ t > O[j].createdAt + OtpWindowMs
    THEN Result(U, O, Throw(StatusUnset, "Invalid or expired OTP"))
  ELSE IF newPassword # confirmPassword
    THEN Result(U, O, Throw(StatusUnset, "Passwords do not match"))
  ELSE IF ~validatePassword(newPassword)
    THEN Result(U, O, Throw(StatusUnset, "Weak password"))
  ELSE LET i == UserFindByEmail(U, ToLowerCase(sanitizeInput(email))) IN
    IF i = 0
      THEN Result(U, O, Throw(StatusUnset, "User not found"))
      ELSE Result(UserSavePassword(U, i, newPassword), O,
             Json(200, [message |-> "Password reset successfully",
                        success |-> TRUE]))

resetPassword(U, O, t, email, code, newPassword, confirmPassword) ==
  IF Len(newPassword) = 0 \/ Len(confirmPassword) = 0
    THEN Result(U, O, Throw(StatusUnset, "Provide both passwords"))
  ELSE IF OtpInvalidOrExpired(O, t, email, code)
    THEN Result(U, O, Throw(StatusUnset, "Invalid or expired OTP"))
  ELSE IF newPassword # confirmPassword
    THEN Result(U, O, Throw(StatusUnset, "Passwords do not match"))
  ELSE IF ~validatePassword(newPassword)
    THEN Result(U, O, Throw(StatusUnset, "Weak password"))
  ELSE LET i == UserFindByEmail(U, ToLowerCase(sanitizeInput(email))) IN
    IF i = 0
      THEN Result(U, O, Throw(StatusUnset, "User not found"))
      ELSE Result(UserSavePassword(U, i, newPassword), O,
             Json(200, [message |-> "Password reset successfully",
                        success |-> TRUE]))

-----------------------------------------------------------------------------
(* Client State Mirror: the auth slice (features/auth/authSlice) and the   *)
(* browser's localStorage                                                  *)

\* JavaScript null and undefined, and a localStorage key that is not set
Null == [null |-> TRUE]
Undefined == [undefined |-> TRUE]
Absent == [absent |-> TRUE]

\* obj.field: undefined when the object has no such property
Get(obj, field) == IF field \in DOMAIN obj THEN obj[field] ELSE Undefined

\* JSON.stringify(value): the JSON text of an object, undefined for undefined
JSONStringify(value) ==
  IF value = Undefined THEN Undefined ELSE [json |-> value]

\* localStorage.setItem(key, value) stores String(value)
StoredString(value) ==
  IF value = Undefined THEN [string |-> "undefined"] ELSE value

setItem(storage, key, value) ==
  [storage EXCEPT ![key] = StoredString(value)]

removeItem(storage, key) == [storage EXCEPT ![key] = Absent]

\* the slice with an empty localStorage: getItem returns null for both keys
initialState ==
  [user         |-> Null,
   token        |-> Null,
   loading      |-> FALSE,
   error        |-> Null,
   resetSuccess |-> FALSE,
   otpSent      |-> FALSE,
   otpValidated |-> FALSE,
   storage      |-> [token |-> Absent, user |-> Absent]]

\* reducers.setUser
setUser(s, payload) ==
  [s EXCEPT !.user = Get(payload, "user"),
            !.token = Get(payload, "token"),
            !.storage = setItem(setItem(s.storage, "token",
                                        Get(payload, "token")),
                                "user", JSONStringify(Get(payload, "user")))]

\* reducers.logout
logout(s) ==
  [s EXCEPT !.user = Null, !.token = Null, !.loading = FALSE,
            !.error = Null, !.resetSuccess = FALSE, !.otpSent = FALSE,
            !.otpValidated = FALSE,
            !.storage = removeItem(removeItem(s.storage, "token"), "user")]

\* reducers.clearResetSuccess
clearResetSuccess(s) ==
  [s EXCEPT !.resetSuccess = FALSE, !.otpSent = FALSE,
            !.otpValidated = FALSE, !.error = Null]

Thunks ==
  {"register", "login", "getMe", "forgotPassword", "validateOTP",
   "resetPassword"}

\* the pending cases of extraReducers; validateOTP and resetPassword have
\* none, so their pending action leaves the state as it is
pendingReducer(s, thunk) ==
  IF thunk \in {"register", "login", "getMe"}
    THEN [s EXCEPT !.loading = TRUE, !.error = Null]
  ELSE IF thunk = "forgotPassword"
    THEN [s EXCEPT !.loading = TRUE, !.error = Null, !.otpSent = FALSE]
  ELSE s

\* the fulfilled cases of extraReducers
fulfilledReducer(s, thunk, payload) ==
  IF thunk \in {"register", "login"}
    THEN [s EXCEPT !.loading = FALSE,
                   !.user = Get(payload, "user"),
                   !.token = Get(payload, "token"),
                   !.storage =
                      setItem(setItem(s.storage, "token",
                                      Get(payload, "token")),
                              "user", JSONStringify(Get(payload, "user")))]
  ELSE IF thunk = "getMe"
    THEN [s EXCEPT !.loading = FALSE, !.user = Get(payload, "user")]
  ELSE IF thunk = "forgotPassword"
    THEN [s EXCEPT !.loading = FALSE, !.otpSent = TRUE]
  ELSE IF thunk = "validateOTP"
    THEN [s EXCEPT !.loading = FALSE, !.otpValidated = TRUE]
  ELSE [s EXCEPT !.loading = FALSE, !.resetSuccess = TRUE]

\* the rejected cases of extraReducers
rejectedReducer(s, thunk, payload) ==
  IF thunk = "getMe"
    THEN [s EXCEPT !.loading = FALSE, !.error = payload,
                   !.user = Null, !.token = Null,
                   !.storage =
                      removeItem(removeItem(s.storage, "token"), "user")]
    ELSE [s EXCEPT !.loading = FALSE, !.error = payload]

\* handleGoogleSuccess of pages/Register.jsx, given the body of the answer
\* of POST /api/auth/google
handleGoogleSuccess(s, data) ==
  LET s2 == setUser(s, Get(data, "user"))
  IN  [s2 EXCEPT !.storage = setItem(s2.storage, "token", Get(data, "token"))]

\* no server call in flight and nothing dispatched yet
NoCall == "none"
NoEvent == [event |-> "none", thunk |-> NoCall, data |-> Null]

ClientInit == [state |-> initialState, call |-> NoCall, last |-> NoEvent]

-----------------------------------------------------------------------------
(* Bounds and the requests the environment sends                           *)

MaxUsers == 2
MaxOtps == 2
MaxTicks == 3
NumProcs == 2

Procs == 1..NumProcs

bob == <<"b","o","b">>
amy == <<"a","m","y">>
emailA == <<"a","@","x",".","c">>
emailAUpper == <<"A","@","x",".","c">>
emailB == <<"b","@","x",".","c">>
notAnEmail == <<"a","x",".","c">>
abc123 == <<"a","b","c","1","2","3">>
xyz789 == <<"x","y","z","7","8","9">>
abcdef == <<"a","b","c","d","e","f">>
code482913 == <<"4","8","2","9","1","3">>
code100000 == <<"1","0","0","0","0","0">>
picUrl == <<"p">>

\* the clock advances by one second or by 299 seconds
TickSteps == {1000, 299000}

\* identity tokens: one rejected by verifyIdToken, and accepted ones whose
\* payload carries a lower-case email, a mixed-case email, a name that is
\* also a registered username
GoogleTokens ==
  { [valid |-> FALSE, email |-> emailA, name |-> amy, picture |-> picUrl],
    [valid |-> TRUE, email |-> emailA, name |-> amy, picture |-> picUrl],
    [valid |-> TRUE, email |-> emailAUpper, name |-> amy, picture |-> picUrl],
    [valid |-> TRUE, email |-> emailB, name |-> bob, picture |-> picUrl] }

-----------------------------------------------------------------------------
(* State                                                                   *)

NoResp ==
  [op |-> "none", req |-> [none |-> TRUE], kind |-> "none",
   status |-> 0, body |-> [none |-> TRUE]]

IdleCall ==
  [pc |-> "idle", username |-> <<>>, email |-> <<>>, password |-> <<>>,
   emailDone |-> FALSE, usernameDone |-> FALSE,
   emailExists |-> FALSE, usernameExists |-> FALSE,
   resp |-> Pass]

NoReset == [happened |-> FALSE]

Init ==
  /\ users = <<>>
  /\ otps = <<>>
  /\ now = 0
  /\ ticks = 0
  /\ resp = NoResp
  /\ reg = [p \in Procs |-> IdleCall]
  /\ lastReset = NoReset
  /\ client = ClientInit

\* a handler ran from request to response: its effect on the stores and
\* the response it produced
Completes(op, req, r) ==
  /\ Len(r.users) <= MaxUsers
  /\ Len(r.otps) <= MaxOtps
  /\ users' = r.users
  /\ otps' = r.otps
  /\ resp' = [op |-> op, req |-> req, kind |-> r.resp.kind,
              status |-> r.resp.status, body |-> r.resp.body]

-----------------------------------------------------------------------------
(* Actions: one per handler                                                *)

RegisterUser(username, email, password) ==
  /\ Completes("register",
               [username |-> username, email |-> email, password |-> password],
               registerUser(users, otps, username, email, password))
  /\ UNCHANGED <<now, ticks, reg, lastReset, client>>

LoginUser(email, password) ==
  /\ Completes("login", [email |-> email, password |-> password],
               loginUser(users, otps, email, password))
  /\ UNCHANGED <<now, ticks, reg, lastReset, client>>

GetMe(reqUser) ==
  /\ Completes("getMe", [reqUser |-> reqUser], getMe(users, otps, reqUser))
  /\ UNCHANGED <<now, ticks, reg, lastReset, client>>

GoogleAuth(idToken) ==
  /\ Completes("google", [token |-> idToken], googleAuth(users, otps, idToken))
  /\ UNCHANGED <<now, ticks, reg, lastReset, client>>

ForgotPassword(email, otpCode, delivered) ==
  /\ Completes("forgotPassword", [email |-> email],
               forgotPassword(users, otps, now, email, otpCode, delivered))
  /\ UNCHANGED <<now, ticks, reg, lastReset, client>>

ValidateOTP(email, code) ==
  /\ Completes("validateOTP", [email |-> email, code |-> code],
               validateOTP(users, otps, now, email, code))
  /\ UNCHANGED <<now, ticks, reg, lastReset, client>>

ResetPassword(email, code, newPassword, confirmPassword) ==
  LET r == resetPassword(users, otps, now, email, code,
                         newPassword, confirmPassword)
  IN
    /\ Completes("resetPassword",
                 [email |-> email, code |-> code, newPassword |-> newPassword,
                  confirmPassword |-> confirmPassword], r)
    /\ lastReset' =
         IF r.resp.kind = "json"
           THEN [happened |-> TRUE, email |-> email, new |-> newPassword,
                 before |-> users]
           ELSE lastReset
    /\ UNCHANGED <<now, ticks, reg, client>>

\* time passes between requests
Tick(d) ==
  /\ ticks < MaxTicks
  /\ now' = now + d
  /\ ticks' = ticks + 1
  /\ UNCHANGED <<users, otps, resp, reg, lastReset, client>>

-----------------------------------------------------------------------------
(* Spec: registration, login, Google sign-in and current-user retrieval    *)

AuthUsernames == {bob, amy, <<>>}
AuthEmails == {emailA, emailAUpper, emailB, notAnEmail}
AuthPasswords == {abc123, xyz789, abcdef}

Next ==
  \/ \E u \in AuthUsernames, e \in AuthEmails, p \in AuthPasswords :
       RegisterUser(u, e, p)
  \/ \E e \in AuthEmails, p \in AuthPasswords : LoginUser(e, p)
  \/ \E i \in 0..Len(users) : GetMe(i)
  \/ \E t \in GoogleTokens : GoogleAuth(t)

Spec == Init /\ [][Next]_vars

-----------------------------------------------------------------------------
(* SpecReset: the password-reset flow for registered accounts, with time   *)

ResetEmails == {emailA, emailB}
ResetCodes == {code482913, code100000}
LoginPasswords == {abc123, xyz789}
OtpCodes == {482913}

\* (newPassword, confirmPassword): matching and strong, matching the
\* registered password, mismatched, weak, weak and mismatched, one missing
ResetPasswordPairs ==
  { <<xyz789, xyz789>>, <<abc123, abc123>>, <<xyz789, abc123>>,
    <<abcdef, abcdef>>, <<abcdef, xyz789>>, <<<<>>, xyz789>> }

NextReset ==
  \/ RegisterUser(bob, emailA, abc123)
  \/ \E e \in ResetEmails, p \in LoginPasswords : LoginUser(e, p)
  \/ \E e \in ResetEmails, c \in OtpCodes, d \in BOOLEAN :
       ForgotPassword(e, c, d)
  \/ \E e \in ResetEmails, c \in ResetCodes : ValidateOTP(e, c)
  \/ \E e \in ResetEmails, c \in ResetCodes, pq \in ResetPasswordPairs :
       ResetPassword(e, c, pq[1], pq[2])
  \/ \E d \in TickSteps : Tick(d)

SpecReset == Init /\ [][NextReset]_vars

-----------------------------------------------------------------------------
(* Properties of the password-reset flow (under SpecReset)                 *)

OtpThrow == Throw(StatusUnset, "Invalid or expired OTP")

\* C1: anti-enumeration.  Whenever forgotPassword answers a request with a
\* well-formed email, the answer (status and body, message included) is the
\* one it gives when no user has that email.
C1_ForgotPasswordUniform ==
  (resp.op = "forgotPassword" /\ resp.kind = "json")
    => LET none == forgotPassword(<<>>, <<>>, now, resp.req.email,
                                  MinOtpCode, TRUE).resp
       IN  resp.status = none.status /\ resp.body = none.body

\* C2: the OTP validity window.  For every record created at T for
\* (email, code), validateOTP(email, code) succeeds at every time up to
\* T + 299 s and fails with "Invalid or expired OTP" from T + 301 s on.
C2_OtpWindow ==
  \A j \in 1..Len(otps) : \A c \in ResetCodes :
    NumberOf(c) = otps[j].code =>
      LET r == validateOTP(users, otps, now, otps[j].email, c).resp IN
        /\ now <= otps[j].createdAt + 299000 => r.kind = "json"
        /\ now >= otps[j].createdAt + 301000 => r = OtpThrow

\* The window of C2 for the record OTP.findOne returns, the oldest with its
\* email and code: it validates up to T + 300 s and never after.
OtpWindowOfOldestRecord ==
  \A j \in 1..Len(otps) : \A c \in ResetCodes :
    (NumberOf(c) = otps[j].code
       /\ j = OTPFindOne(otps, otps[j].email, otps[j].code)) =>
      LET r == validateOTP(users, otps, now, otps[j].email, c).resp IN
        IF now <= otps[j].createdAt + OtpWindowMs
          THEN r.kind = "json" ELSE r = OtpThrow

LoginOk(U, email, password) ==
  loginUser(U, <<>>, email, password).resp.kind = "json"

\* C3: after a successful resetPassword(email, code, new, new), and until the
\* next successful reset, login(email, new) succeeds and login(email, old)
\* fails with 401 "Invalid email or password" for every password old # new
\* that logged in before the reset.
C3_ResetThenLogin ==
  lastReset.happened =>
    /\ LoginOk(users, lastReset.email, lastReset.new)
    /\ \A q \in LoginPasswords :
         (q # lastReset.new /\ LoginOk(lastReset.before, lastReset.email, q))
           => loginUser(users, otps, lastReset.email, q).resp
                = Throw(401, "Invalid email or password")

\* a login with the old password was made after the reset, and was refused
C3_Witness ==
  /\ lastReset.happened
  /\ resp.op = "login"
  /\ resp.req.email = lastReset.email
  /\ resp.req.password # lastReset.new
  /\ LoginOk(lastReset.before, lastReset.email, resp.req.password)
  /\ resp.status = 401

\* C7: validateOTP is read-only.  No call changes either store, and after a
\* successful validateOTP(email, code) a resetPassword with the same email
\* and code passes the OTP check for as long as the record's window lasts.
C7_ValidateReadOnly ==
  /\ \A e \in ResetEmails, c \in ResetCodes :
       LET r == validateOTP(users, otps, now, e, c) IN
         r.users = users /\ r.otps = otps
  /\ (resp.op = "validateOTP" /\ resp.kind = "json") =>
       LET j == OTPFindOne(otps, sanitizeInput(resp.req.email),
                           NumberOf(resp.req.code))
       IN  /\ j # 0
           /\ now <= otps[j].createdAt + OtpWindowMs =>
                /\ resetPassword(users, otps, now, resp.req.email,
                                 resp.req.code, xyz789, xyz789).resp.kind
                     = "json"
                /\ \A pq \in ResetPasswordPairs :
                     resetPassword(users, otps, now, resp.req.email,
                                   resp.req.code, pq[1], pq[2]).resp
                       # OtpThrow

\* a code was validated and time has passed inside its window
C7_Witness ==
  /\ resp.op = "validateOTP"
  /\ resp.kind = "json"
  /\ \E j \in 1..Len(otps) :
       /\ otps[j].email = resp.req.email
       /\ otps[j].createdAt < now
       /\ now <= otps[j].createdAt + OtpWindowMs

\* C10: resetPassword reports the first failing check in the order missing
\* field, invalid or expired OTP, password mismatch, weak password, user not
\* found; the OTP check is validateOTP's verdict on the same email and code.
\* Stated for the Credential Store as it is and, with two equal strong
\* passwords, for an empty one, where the user lookup fails.
C10_ResetErrorOrder ==
  \A e \in ResetEmails, c \in ResetCodes :
    LET badOtp == validateOTP(users, otps, now, e, c).resp.kind = "throw"
        Ordered(U, pq) ==
          LET r        == resetPassword(U, otps, now, e, c, pq[1], pq[2]).resp
              missing  == pq[1] = <<>> \/ pq[2] = <<>>
              mismatch == pq[1] # pq[2]
              weak     == ~validatePassword(pq[1])
              noUser   == \A i \in 1..Len(U) :
                            U[i].email # ToLowerCase(sanitizeInput(e))
          IN  /\ missing => r = Throw(StatusUnset, "Provide both passwords")
              /\ (~missing /\ badOtp) => r = OtpThrow
              /\ (~missing /\ ~badOtp /\ mismatch)
                   => r = Throw(StatusUnset, "Passwords do not match")
              /\ (~missing /\ ~badOtp /\ ~mismatch /\ weak)
                   => r = Throw(StatusUnset, "Weak password")
              /\ (~missing /\ ~badOtp /\ ~mismatch /\ ~weak /\ noUser)
                   => r = Throw(StatusUnset, "User not found")
              /\ (~missing /\ ~badOtp /\ ~mismatch /\ ~weak /\ ~noUser)
                   => r.kind = "json"
    IN  /\ \A pq \in ResetPasswordPairs : Ordered(users, pq)
        /\ Ordered(<<>>, <<xyz789, xyz789>>)

\* a reset with a valid code and passwords that are both weak and mismatched
\* was answered "Passwords do not match"
C10_Witness ==
  /\ resp.op = "resetPassword"
  /\ resp.body.message = "Passwords do not match"
  /\ ~validatePassword(resp.req.newPassword)
  /\ validateOTP(users, otps, now, resp.req.email, resp.req.code).resp.kind
       = "json"

-----------------------------------------------------------------------------
(* Properties of registration, login and Google sign-in (under Spec)       *)

\* the records whose email equals the given one when letter case is ignored
SameEmail(U, email) ==
  { i \in 1..Len(U) :
      ToLowerCase(U[i].email) = ToLowerCase(sanitizeInput(email)) }

InvalidCredentials == Throw(401, "Invalid email or password")

\* C5: no two records share a username, and no two share an email when
\* emails are compared case-insensitively.
C5_UniqueIdentities ==
  \A i, j \in 1..Len(users) :
    i # j => /\ users[i].username # users[j].username
             /\ ToLowerCase(users[i].email) # ToLowerCase(users[j].email)

\* C6: login is non-enumerable.  For well-formed emails, a login with a wrong
\* password for an existing account and a login for an email without an
\* account are answered alike (401, "Invalid email or password"), and
\* neither changes a store.
C6_LoginNonEnumerable ==
  \A e1, e2 \in AuthEmails, p1, p2 \in AuthPasswords :
    ( /\ validateEmail(sanitizeInput(e1))
      /\ validateEmail(sanitizeInput(e2))
      /\ SameEmail(users, e1) # {}
      /\ \A i \in SameEmail(users, e1) : users[i].password # Hash(p1)
      /\ SameEmail(users, e2) = {} )
    => LET r1 == loginUser(users, otps, e1, p1)
           r2 == loginUser(users, otps, e2, p2)
       IN  /\ r1.resp = InvalidCredentials
           /\ r2.resp = r1.resp
           /\ r1.users = users /\ r1.otps = otps
           /\ r2.users = users /\ r2.otps = otps

\* a login with a wrong password for an existing account was refused, while
\* another well-formed email has no account
C6_Witness ==
  /\ resp.op = "login"
  /\ resp.kind = "throw"
  /\ resp.status = 401
  /\ SameEmail(users, resp.req.email) # {}
  /\ \E e2 \in AuthEmails :
       validateEmail(sanitizeInput(e2)) /\ SameEmail(users, e2) = {}

\* C8: the success response of register, login, getMe and googleSignIn never
\* carries the stored password hash of the identity it returns.
C8_NoHashInResponse ==
  /\ (resp.kind = "json" /\ resp.op \in {"register", "login", "getMe"})
       => "password" \notin DOMAIN resp.body
  /\ (resp.op = "google" /\ resp.body.success)
       => ~( /\ "password" \in DOMAIN resp.body.user
             /\ Len(resp.body.user.password) > 0 )

DuplicateIdentity ==
  { Throw(StatusUnset, "Email already registered"),
    Throw(StatusUnset, "Username already taken"),
    Throw(StatusUnset, "E11000 duplicate key error") }

\* C9: a register whose fields are valid and whose email is already stored,
\* letter case ignored, fails with a duplicate-identity error and adds no
\* record, whatever the username.
C9_RegisterRejectsExistingEmail ==
  ( /\ resp.op = "register"
    /\ RegisterValidation(resp.req.username, resp.req.email,
                          resp.req.password) = Pass
    /\ \E i \in SameEmail(users, resp.req.email) :
         ~(resp.kind = "json" /\ users[i].id = resp.body.id) )
  => resp.kind = "throw" /\ resp \in
       { [op |-> "register", req |-> resp.req, kind |-> d.kind,
          status |-> d.status, body |-> d.body] : d \in DuplicateIdentity }

-----------------------------------------------------------------------------
(* SpecRace: concurrent registerUser calls, one step per await              *)

RaceUsernames == {bob, amy}
RaceEmails == {emailA, emailAUpper, emailB}
RacePasswords == {abc123, abcdef}

\* the request arrives: the synchronous checks run and, when they pass, the
\* two lookups of Promise.all are issued
RegBegin(p, username, email, password) ==
  LET v == RegisterValidation(username, email, password) IN
    /\ reg[p].pc = "idle"
    /\ reg' = [reg EXCEPT ![p] =
                 [IdleCall EXCEPT
                    !.pc = IF v.kind = "throw" THEN "done" ELSE "lookup",
                    !.username = username,
                    !.email = email,
                    !.password = password,
                    !.resp = v]]
    /\ UNCHANGED <<users, otps, now, ticks, resp, lastReset, client>>

\* the store answers User.findOne({ email })
RegEmailLookup(p) ==
  /\ reg[p].pc = "lookup"
  /\ ~reg[p].emailDone
  /\ reg' = [reg EXCEPT ![p].emailDone = TRUE,
                        ![p].emailExists =
                          RegisterLookupEmail(users, reg[p].email)]
  /\ UNCHANGED <<users, otps, now, ticks, resp, lastReset, client>>

\* the store answers User.findOne({ username })
RegUsernameLookup(p) ==
  /\ reg[p].pc = "lookup"
  /\ ~reg[p].usernameDone
  /\ reg' = [reg EXCEPT ![p].usernameDone = TRUE,
                        ![p].usernameExists =
                          RegisterLookupUsername(users, reg[p].username)]
  /\ UNCHANGED <<users, otps, now, ticks, resp, lastReset, client>>

\* both lookups are in: the duplicate checks, then User.create against the
\* store as it is by then, then the response
RegCreate(p) ==
  LET r == RegisterFinish(users, otps, reg[p].username, reg[p].email,
                          reg[p].password, reg[p].emailExists,
                          reg[p].usernameExists)
  IN
    /\ reg[p].pc = "lookup"
    /\ reg[p].emailDone
    /\ reg[p].usernameDone
    /\ users' = r.users
    /\ reg' = [reg EXCEPT ![p].pc = "done", ![p].resp = r.resp]
    /\ UNCHANGED <<otps, now, ticks, resp, lastReset, client>>

NextRace ==
  \/ \E p \in Procs, u \in RaceUsernames, e \in RaceEmails,
        pw \in RacePasswords : RegBegin(p, u, e, pw)
  \/ \E p \in Procs : RegEmailLookup(p)
  \/ \E p \in Procs : RegUsernameLookup(p)
  \/ \E p \in Procs : RegCreate(p)

SpecRace == Init /\ [][NextRace]_vars

NormalEmail(email) == ToLowerCase(sanitizeInput(email))

\* C4: two concurrent register calls with the same email, both well-formed.
\* However their lookups and creates interleave, at most one of them
\* succeeds; and unless one of their usernames belongs to an account with
\* another email, exactly one record with that email is stored at the end.
C4_ConcurrentRegister ==
  \A p, q \in Procs :
    ( /\ p # q
      /\ reg[p].pc = "done" /\ reg[q].pc = "done"
      /\ NormalEmail(reg[p].email) = NormalEmail(reg[q].email)
      /\ RegisterValidation(reg[p].username, reg[p].email,
                            reg[p].password) = Pass
      /\ RegisterValidation(reg[q].username, reg[q].email,
                            reg[q].password) = Pass )
    => /\ ~(reg[p].resp.kind = "json" /\ reg[q].resp.kind = "json")
       /\ Cardinality(SameEmail(users, reg[p].email)) <= 1
       /\ (\A i \in 1..Len(users) :
             users[i].username \in { sanitizeInput(reg[p].username),
                                     sanitizeInput(reg[q].username) }
               => users[i].email = NormalEmail(reg[p].email))
            => Cardinality(SameEmail(users, reg[p].email)) = 1

\* both calls found no record with the email, one created the record and the
\* store refused the other's write
C4_Witness ==
  \E p, q \in Procs :
    /\ p # q
    /\ reg[p].pc = "done" /\ reg[q].pc = "done"
    /\ NormalEmail(reg[p].email) = NormalEmail(reg[q].email)
    /\ reg[p].username # reg[q].username
    /\ reg[p].emailDone /\ ~reg[p].emailExists
    /\ reg[q].emailDone /\ ~reg[q].emailExists
    /\ reg[p].resp.kind = "json"
    /\ reg[q].resp = Throw(StatusUnset, "E11000 duplicate key error")

-----------------------------------------------------------------------------
(* Registration and the register/login round trip (under Spec)             *)

\* no record holds the username or the email the request normalises to
NotPresent(U, username, email) ==
  \A i \in 1..Len(U) :
    /\ U[i].username # sanitizeInput(username)
    /\ U[i].email # NormalEmail(email)

\* C12: for every triple that passes the presence and format checks and
\* whose username and email are in no record, registerUser answers 201, keeps
\* the old records and adds exactly one, for the normalised username and
\* email, and its token carries the id of that record, an id no older record
\* has; loginUser with the same email and password in the resulting store
\* then succeeds with a token that carries the same id.
C12_RegisterThenLogin ==
  \A u \in AuthUsernames, e \in AuthEmails, p \in AuthPasswords :
    (RegisterValidation(u, e, p).kind = "pass" /\ NotPresent(users, u, e))
      => LET r   == registerUser(users, otps, u, e, p)
             n   == Len(r.users)
             l   == loginUser(r.users, r.otps, e, p)
         IN  /\ r.resp.kind = "json"
             /\ r.resp.status = 201
             /\ n = Len(users) + 1
             /\ SubSeq(r.users, 1, Len(users)) = users
             /\ r.users[n].username = sanitizeInput(u)
             /\ r.users[n].email = NormalEmail(e)
             /\ r.resp.body.token.id = r.users[n].id
             /\ \A i \in 1..Len(users) : users[i].id # r.users[n].id
             /\ l.resp.kind = "json"
             /\ l.resp.body.token.id = r.users[n].id
             /\ l.users = r.users

\* a second account was registered with an email typed in upper case, and
\* the token of the answer carries the id of the record added for it
C12_Witness ==
  /\ resp.op = "register"
  /\ resp.kind = "json"
  /\ resp.req.email = emailAUpper
  /\ Len(users) = 2
  /\ resp.body.token.id = users[2].id
  /\ users[2].email = emailA

-----------------------------------------------------------------------------
(* Sanitisation of the register inputs (under SpecSanitize)                *)

dollarBob == <<"$">> \o bob
spaceDollarAmy == <<" ", "$">> \o amy
dollarDollarBob == <<"$", "$">> \o bob
dollarEmailA == <<"$">> \o emailA
dollarDollarEmailB == <<"$", "$">> \o emailB

SanitizeUsernames == {bob, dollarBob, spaceDollarAmy, dollarDollarBob}
SanitizeEmails == {emailA, emailB, dollarEmailA, dollarDollarEmailB}

NextSanitize ==
  \/ \E u \in SanitizeUsernames, e \in SanitizeEmails :
       RegisterUser(u, e, abc123)
  \/ \E e \in SanitizeEmails : LoginUser(e, abc123)

SpecSanitize == Init /\ [][NextSanitize]_vars

\* the value begins, once its surrounding whitespace is stripped, with '$'
BeginsWithOperator(input) ==
  Len(Trim(input)) > 0 /\ Trim(input)[1] = "$"

\* C15: registerUser fails, and creates no record, for every request whose
\* username or email begins with '$' after its surrounding whitespace is
\* stripped, and no stored username or email begins with '$'.
C15_RegisterRejectsOperator ==
  /\ \A u \in SanitizeUsernames, e \in SanitizeEmails :
       (BeginsWithOperator(u) \/ BeginsWithOperator(e))
         => LET r == registerUser(users, otps, u, e, abc123)
            IN  r.resp.kind = "throw" /\ r.users = users
  /\ \A i \in 1..Len(users) :
       /\ ~BeginsWithOperator(users[i].username)
       /\ ~BeginsWithOperator(users[i].email)

-----------------------------------------------------------------------------
(* Google sign-in (under Spec)                                             *)

\* C16: for every identity token the verification accepts, googleAuth
\* succeeds and answers with the identity and a token for it; when no record
\* has the token's email it adds one record with that email, the extracted
\* name and picture and an empty password hash, and otherwise it leaves the
\* Credential Store as it is and answers with the existing record.
C16_GoogleAlwaysSucceeds ==
  \A tok \in GoogleTokens :
    tok.valid =>
      LET r == googleAuth(users, otps, tok)
          i == UserFindByEmail(users, tok.email)
          n == Len(r.users)
      IN  /\ r.resp.kind = "json"
          /\ r.resp.body.success
          /\ r.resp.body.user.email = tok.email
          /\ r.resp.body.token = generateToken(r.resp.body.user.id)
          /\ i = 0 => /\ n = Len(users) + 1
                      /\ SubSeq(r.users, 1, Len(users)) = users
                      /\ r.users[n].username = tok.name
                      /\ r.users[n].profilePic = tok.picture
                      /\ r.users[n].password = <<>>
                      /\ r.resp.body.user = r.users[n]
          /\ i # 0 => /\ r.users = users
                      /\ r.resp.body.user = users[i]

-----------------------------------------------------------------------------
(* The OTP record after a reset (under SpecReset)                          *)

ResetOk == Json(200, [message |-> "Password reset successfully",
                      success |-> TRUE])

ValidateOk == Json(200, [message |-> "OTP validated", success |-> TRUE])

\* C17: a successful resetPassword leaves the OTP Store as it was, and in
\* the stores it leaves behind, at the same moment or any later moment at
\* which the window of the record it accepted has not lapsed, validateOTP and
\* resetPassword with the same email and code succeed.
C17_ResetKeepsCode ==
  \A e \in ResetEmails, c \in ResetCodes, pq \in ResetPasswordPairs :
    LET r == resetPassword(users, otps, now, e, c, pq[1], pq[2])
        j == OTPFindOne(otps, sanitizeInput(e), NumberOf(c))
    IN  r.resp = ResetOk =>
          /\ r.otps = otps
          /\ \A d \in {0} \cup TickSteps :
               now + d <= otps[j].createdAt + OtpWindowMs =>
                 /\ validateOTP(r.users, r.otps, now + d, e, c).resp
                      = ValidateOk
                 /\ resetPassword(r.users, r.otps, now + d, e, c,
                                  xyz789, xyz789).resp = ResetOk

\* after a successful reset and 299 seconds or more, a resetPassword with
\* the same email succeeded again
C17_Witness ==
  /\ resp.op = "resetPassword"
  /\ resp.kind = "json"
  /\ lastReset.happened
  /\ lastReset.email = resp.req.email
  /\ lastReset.before # <<>>
  /\ lastReset.before[1].password # Hash(abc123)
  /\ now >= 299000

\* C18: outstanding codes coexist.  forgotPassword keeps every earlier OTP
\* record as it is, and every record in the OTP Store is accepted by
\* validateOTP, given its email and its code, at every moment up to the end
\* of its own window, whatever other records the store holds.
C18_CodesCoexist ==
  /\ \A e \in ResetEmails, c \in OtpCodes, d \in BOOLEAN :
       SubSeq(forgotPassword(users, otps, now, e, c, d).otps, 1, Len(otps))
         = otps
  /\ \A j \in 1..Len(otps) :
       now <= otps[j].createdAt + OtpWindowMs =>
         \E c \in ResetCodes :
           /\ NumberOf(c) = otps[j].code
           /\ validateOTP(users, otps, now, otps[j].email, c).resp
                = ValidateOk

-----------------------------------------------------------------------------
(* SpecAccounts: every operation, on accounts made by registration and by  *)
(* Google sign-in, with emails in either letter case                       *)

AccountUsernames == {bob, amy}
AccountEmails == {emailA, emailAUpper, emailB}

NextAccounts ==
  \/ \E u \in AccountUsernames, e \in ResetEmails : RegisterUser(u, e, abc123)
  \/ \E e \in AccountEmails, p \in LoginPasswords : LoginUser(e, p)
  \/ \E i \in 0..Len(users) : GetMe(i)
  \/ \E t \in GoogleTokens : GoogleAuth(t)
  \/ \E e \in AccountEmails, c \in OtpCodes, d \in BOOLEAN :
       ForgotPassword(e, c, d)
  \/ \E e \in AccountEmails : ValidateOTP(e, code482913)
  \/ \E e \in AccountEmails : ResetPassword(e, code482913, xyz789, xyz789)

SpecAccounts == Init /\ [][NextAccounts]_vars

UserNotFound == Throw(StatusUnset, "User not found")

\* C19: every OTP record has the email of some record of the Credential
\* Store, no resetPassword request made in a reachable state ends with
\* "User not found", and none that was made has.
C19_OtpHasUser ==
  /\ \A j \in 1..Len(otps) :
       \E i \in 1..Len(users) : users[i].email = otps[j].email
  /\ \A e \in AccountEmails, c \in ResetCodes, pq \in ResetPasswordPairs :
       resetPassword(users, otps, now, e, c, pq[1], pq[2]).resp
         # UserNotFound
  /\ resp.op = "resetPassword" => resp.body # UserNotFound.body

\* the password of the second of two accounts was reset
C19_Witness ==
  /\ resp.op = "resetPassword"
  /\ resp.kind = "json"
  /\ Len(users) = 2
  /\ users[2].password = Hash(xyz789)
  /\ \E j \in 1..Len(otps) : otps[j].email = users[2].email

-----------------------------------------------------------------------------
(* Fail-fast error handling (under SpecAccounts)                           *)

\* the messages of the validation errors of the five handlers
ValidationErrors ==
  {"Please provide all required fields", "Invalid username format",
   "Invalid email address", "Weak password", "Email already registered",
   "Username already taken", "E11000 duplicate key error",
   "Please provide email and password", "Invalid email or password",
   "Please provide an email", "Invalid or expired OTP",
   "Provide both passwords", "Passwords do not match", "User not found"}

\* r ended with a validation error
ValidationFailed(r) ==
  r.resp.kind = "throw" /\ r.resp.body.message \in ValidationErrors

\* r left both stores as they are in the current state
StoresUntouched(r) == r.users = users /\ r.otps = otps

\* C11: fail-fast.  In every reachable state and for every request, made
\* now or after the OTP window has lapsed, a register (also one whose
\* duplicate lookups were taken from an older state), login, forgotPassword,
\* validateOTP or resetPassword that ends with a validation error returns the
\* Credential Store and the OTP Store exactly as they were before the call.
C11_FailFast ==
  /\ \A u \in AuthUsernames, e \in AuthEmails, p \in {abc123, abcdef} :
       /\ LET r == registerUser(users, otps, u, e, p)
          IN  ValidationFailed(r) => StoresUntouched(r)
       /\ \A ee \in BOOLEAN, ue \in BOOLEAN :
            LET r == RegisterFinish(users, otps, u, e, p, ee, ue)
            IN  ValidationFailed(r) => StoresUntouched(r)
       /\ LET r == loginUser(users, otps, e, p)
          IN  ValidationFailed(r) => StoresUntouched(r)
  /\ \A e \in AuthEmails \cup {<<>>}, d \in BOOLEAN :
       LET r == forgotPassword(users, otps, now, e, MinOtpCode, d)
       IN  ValidationFailed(r) => StoresUntouched(r)
  /\ \A e \in AccountEmails, c \in ResetCodes :
       \A t \in {now, now + OtpWindowMs + 1} :
         /\ LET r == validateOTP(users, otps, t, e, c)
            IN  ValidationFailed(r) => StoresUntouched(r)
         /\ \A pq \in ResetPasswordPairs \cup {<<abc123, <<>> >>} :
              \A U \in {users, <<>>} :
                LET r == resetPassword(U, otps, t, e, c, pq[1], pq[2])
                IN  ValidationFailed(r) => (r.users = U /\ r.otps = otps)

\* a reset was refused, with two accounts and an OTP record for the
\* request's email in the stores
C11_Witness ==
  /\ resp.op = "resetPassword"
  /\ resp.kind = "throw"
  /\ resp.body.message = "Invalid or expired OTP"
  /\ Len(users) = 2
  /\ \E j \in 1..Len(otps) : otps[j].email = NormalEmail(resp.req.email)

-----------------------------------------------------------------------------
(* Delivery failure in forgotPassword (under SpecAccounts)                 *)

\* C20: when forgotPassword is asked for the email of an existing account
\* and the mail is not delivered, the handler ends with an error, not with a
\* response, and the OTP Store is the old one followed by the record of the
\* code drawn for this request; the Credential Store is unchanged.
C20_DeliveryFailure ==
  /\ \A e \in AccountEmails, c \in OtpCodes :
       UserFindByEmail(users, NormalEmail(e)) # 0 =>
         LET r == forgotPassword(users, otps, now, e, c, FALSE)
         IN  /\ r.resp.kind = "throw"
             /\ r.otps = Append(otps, [email |-> NormalEmail(e), code |-> c,
                                       createdAt |-> now])
             /\ r.users = users
  /\ (resp.op = "forgotPassword" /\ resp.kind = "throw"
        /\ resp.body.message \notin ValidationErrors)
       => /\ Len(otps) > 0
          /\ otps[Len(otps)].email = NormalEmail(resp.req.email)

\* a forgotPassword ended with the delivery error and left its record
C20_Witness ==
  /\ resp.op = "forgotPassword"
  /\ resp.kind = "throw"
  /\ resp.body.message = "sendEmail failed"
  /\ Len(otps) > 0
  /\ otps[Len(otps)].email = NormalEmail(resp.req.email)

-----------------------------------------------------------------------------
(* SpecClient: the Client State Mirror, one server call in flight at a     *)
(* time                                                                    *)

\* the identities the server answers with
ClientUsers ==
  { [id |-> 1, username |-> bob, email |-> emailA, profilePic |-> NoPic],
    [id |-> 2, username |-> amy, email |-> emailB, profilePic |-> picUrl] }

\* what registerUserAPI and loginUserAPI resolve to for the identity u
AuthPayload(u) == [user |-> u, token |-> generateToken(u.id)]

\* what getMeAPI resolves to for the identity u
MePayload(u) == [user |-> u]

\* the body of a successful answer of POST /api/auth/google
GoogleData(u) ==
  [success |-> TRUE, token |-> generateToken(u.id), user |-> u]

\* what the call of a thunk can resolve to
FulfilledPayloads(thunk) ==
  IF thunk \in {"register", "login"} THEN {AuthPayload(u) : u \in ClientUsers}
  ELSE IF thunk = "getMe" THEN {MePayload(u) : u \in ClientUsers}
  ELSE {[success |-> TRUE]}

\* rejectWithValue(error.response?.data?.message || default)
RejectedPayloads ==
  {[message |-> "Invalid or expired OTP"], [message |-> "Server error"]}

\* dispatch(thunk(arg)): createAsyncThunk dispatches the pending action
Dispatch(thunk) ==
  /\ client.call = NoCall
  /\ client' = [state |-> pendingReducer(client.state, thunk),
                call  |-> thunk,
                last  |-> [event |-> "pending", thunk |-> thunk,
                           data |-> Null]]
  /\ UNCHANGED <<users, otps, now, ticks, resp, reg, lastReset>>

\* the call resolved: the fulfilled action with what it resolved to
Fulfilled(thunk, payload) ==
  /\ client.call = thunk
  /\ client' = [state |-> fulfilledReducer(client.state, thunk, payload),
                call  |-> NoCall,
                last  |-> [event |-> "fulfilled", thunk |-> thunk,
                           data |-> payload]]
  /\ UNCHANGED <<users, otps, now, ticks, resp, reg, lastReset>>

\* the call failed: the rejected action with the rejectWithValue payload
Rejected(thunk, payload) ==
  /\ client.call = thunk
  /\ client' = [state |-> rejectedReducer(client.state, thunk, payload),
                call  |-> NoCall,
                last  |-> [event |-> "rejected", thunk |-> thunk,
                           data |-> payload]]
  /\ UNCHANGED <<users, otps, now, ticks, resp, reg, lastReset>>

\* Google sign-in succeeded on the server with the body data
GoogleSuccess(data) ==
  /\ client.call = NoCall
  /\ client' = [client EXCEPT
                  !.state = handleGoogleSuccess(client.state, data),
                  !.last = [event |-> "google", thunk |-> NoCall,
                            data |-> data]]
  /\ UNCHANGED <<users, otps, now, ticks, resp, reg, lastReset>>

Logout ==
  /\ client.call = NoCall
  /\ client' = [client EXCEPT
                  !.state = logout(client.state),
                  !.last = [event |-> "logout", thunk |-> NoCall,
                            data |-> Null]]
  /\ UNCHANGED <<users, otps, now, ticks, resp, reg, lastReset>>

ClearResetSuccess ==
  /\ client.call = NoCall
  /\ client' = [client EXCEPT
                  !.state = clearResetSuccess(client.state),
                  !.last = [event |-> "clearResetSuccess", thunk |-> NoCall,
                            data |-> Null]]
  /\ UNCHANGED <<users, otps, now, ticks, resp, reg, lastReset>>

NextClient ==
  \/ \E thunk \in Thunks : Dispatch(thunk)
  \/ \E thunk \in Thunks : \E payload \in FulfilledPayloads(thunk) :
       Fulfilled(thunk, payload)
  \/ \E thunk \in Thunks, payload \in RejectedPayloads :
       Rejected(thunk, payload)
  \/ \E u \in ClientUsers : GoogleSuccess(GoogleData(u))
  \/ Logout
  \/ ClearResetSuccess

SpecClient == Init /\ [][NextClient]_vars

\* C13: after a fulfilled register or login and after a successful Google
\* sign-in, state.user is the identity and state.token the token the server
\* answered that call with, and localStorage holds that token and the JSON
\* text of that identity; after logout and after a rejected getMe, state.user
\* and state.token are null and neither key is in localStorage.
C13_MirrorPersists ==
  LET s    == client.state
      last == client.last
      held(user, token) ==
        /\ s.user = user
        /\ s.token = token
        /\ s.storage.user = JSONStringify(user)
        /\ s.storage.token = token
  IN  /\ (last.event = "fulfilled" /\ last.thunk \in {"register", "login"})
           => held(last.data.user, last.data.token)
      /\ last.event = "google" => held(last.data.user, last.data.token)
      /\ (last.event = "logout"
            \/ (last.event = "rejected" /\ last.thunk = "getMe"))
           => /\ s.user = Null
              /\ s.token = Null
              /\ s.storage.user = Absent
              /\ s.storage.token = Absent

\* C14: the pending action of each of the six calls leaves loading = true
\* and error = null, the fulfilled action leaves loading = false and, the
\* pending action having cleared it, error = null, and the rejected action
\* leaves loading = false and error = its payload.
C14_CallTransitions ==
  LET s    == client.state
      last == client.last
  IN  /\ last.event = "pending" => (s.loading /\ s.error = Null)
      /\ last.event = "fulfilled" => (~s.loading /\ s.error = Null)
      /\ last.event = "rejected" => (~s.loading /\ s.error = last.data)

-----------------------------------------------------------------------------
(* Password-change safety (under SpecAccounts)                             *)

\* r kept every record of the current Credential Store with its password
PasswordsKept(r) ==
  /\ Len(r.users) >= Len(users)
  /\ \A i \in 1..Len(users) : r.users[i].password = users[i].password

\* C21: in every reachable state, no register, login, Google sign-in,
\* forgotPassword or validateOTP request changes the password of a record,
\* and a resetPassword request, made now or after the OTP window, changes the
\* password of a record only if the OTP Store holds a record with that
\* record's email and the presented code that has not expired at that moment;
\* it changes no other record.
C21_PasswordChangeSafety ==
  /\ \A u \in AccountUsernames, e \in ResetEmails :
       PasswordsKept(registerUser(users, otps, u, e, abc123))
  /\ \A e \in AccountEmails, p \in LoginPasswords :
       PasswordsKept(loginUser(users, otps, e, p))
  /\ \A tok \in GoogleTokens : PasswordsKept(googleAuth(users, otps, tok))
  /\ \A e \in AccountEmails :
       /\ \A d \in BOOLEAN :
            PasswordsKept(forgotPassword(users, otps, now, e, MinOtpCode, d))
       /\ PasswordsKept(validateOTP(users, otps, now, e, code482913))
  /\ \A e \in AccountEmails, c \in ResetCodes :
       \A t \in {now, now + OtpWindowMs + 1} :
         LET r == resetPassword(users, otps, t, e, c, xyz789, xyz789)
         IN  /\ Len(r.users) = Len(users)
             /\ \A i \in 1..Len(users) :
                  r.users[i] # users[i] =>
                    /\ \E j \in 1..Len(otps) :
                         /\ otps[j].email = users[i].email
                         /\ otps[j].code = NumberOf(c)
                         /\ t <= otps[j].createdAt + OtpWindowMs
                    /\ \A k \in 1..Len(users) :
                         k # i => r.users[k] = users[k]

\* with two accounts and an OTP record for the second one only, the
\* password of the second was reset and that of the first is as registered
C21_Witness ==
  /\ resp.op = "resetPassword"
  /\ resp.kind = "json"
  /\ Len(users) = 2
  /\ users[1].password = Hash(abc123)
  /\ users[2].password = Hash(xyz789)
  /\ \A j \in 1..Len(otps) : otps[j].email = users[2].email

-----------------------------------------------------------------------------
(* Email normalisation across the reset flow (under SpecAccounts)          *)

\* C22: for every well-formed email, in either letter case, whose lower-case
\* form is the email of an account, a forgotPassword for it that delivers
\* the code is followed, at the same moment and in the stores it leaves, by a
\* successful validateOTP and a successful resetPassword with that email,
\* the issued code and a strong password given twice.
C22_ResetFlowAnyCase ==
  \A e \in AccountEmails :
    (validateEmail(sanitizeInput(e))
       /\ UserFindByEmail(users, NormalEmail(e)) # 0)
      => LET f == forgotPassword(users, otps, now, e, 482913, TRUE)
         IN  /\ f.resp.kind = "json"
             /\ validateOTP(f.users, f.otps, now, e, code482913).resp
                  = ValidateOk
             /\ resetPassword(f.users, f.otps, now, e, code482913,
                              xyz789, xyz789).resp = ResetOk

====
